---- MODULE Spec2Model ----
(***************************************************************************)
(* A model of the score-processing pipeline of nota_db:                    *)
(*   - files/tasks.py: the Celery tasks process_score and                  *)
(*     cleanup_temp_files, the job record they save, the per-id directory  *)
(*     TEMP_STORAGE_DIR/<id> they work in;                                  *)
(*   - files/audiveris_processor.py: process_with_audiveris with its       *)
(*     job_tracking counter and its temp_workspace.                        *)
(* SpecTask is the state machine of the tasks, SpecPwa the state machine   *)
(* of concurrent calls of process_with_audiveris.                          *)
(***************************************************************************)
EXTENDS Integers, Sequences, FiniteSets, TLC

\* ------------------------------------------------------------------ bounds
MaxRuns == 2
MaxIds == 1
MaxFacetFailures == 1
MaxCounter == 3

\* ------------------------------------------------------- program constants
MinMxlSize == 100

Runs == 1..MaxRuns
Ids == 1..MaxIds

\* ------------------------------------------------------------- job record
\* models.PDFFile, the fields process_score reads and writes.  results is
\* null, the string "Error: <msg>" or json.dumps(analysis).
FacetNames ==
    {"key", "parts", "chords", "time_signature", "notable_elements", "score_structure"}

NoFacets == [f \in FacetNames |-> "absent"]

Null == [kind |-> "null", msg |-> "", facets |-> NoFacets]

ErrorResult(m) == [kind |-> "error", msg |-> m, facets |-> NoFacets]

AnalysisResult(a) == [kind |-> "analysis", msg |-> "", facets |-> a]

NoRecord ==
    [exists |-> FALSE, processed |-> FALSE, results |-> Null,
     musicxml_url |-> "null", midi_url |-> "null"]

\* serializer.save(file=None) in FileUploadView.post: the model's defaults.
NewRecord ==
    [exists |-> TRUE, processed |-> FALSE, results |-> Null,
     musicxml_url |-> "null", midi_url |-> "null"]

\* ------------------------------------------------------------ file system
\* TEMP_STORAGE_DIR / str(score_id): a directory is named by the id.
TempDir(i) == i

FileNames == {"input", "input.mxl", "output.mxl", "output.xml", "score.mid"}

NoFile == [present |-> FALSE, size |-> 0, hasXml |-> FALSE]

PlainFile == [present |-> TRUE, size |-> 1, hasXml |-> FALSE]

NoDir == [exists |-> FALSE, files |-> [n \in FileNames |-> NoFile]]

\* The archives the engine can leave behind: size in bytes and whether the
\* zip holds an entry ending in .xml (a zip with such an entry is longer
\* than 100 bytes).
Archives ==
    {[present |-> TRUE, size |-> MinMxlSize - 1, hasXml |-> FALSE],
     [present |-> TRUE, size |-> MinMxlSize, hasXml |-> FALSE],
     [present |-> TRUE, size |-> 2 * MinMxlSize, hasXml |-> FALSE],
     [present |-> TRUE, size |-> 2 * MinMxlSize, hasXml |-> TRUE]}

\* A size test that also rejects MinMxlSize bytes: the mutant of TooSmall.
TooSmallInclusive(mxl_size) == mxl_size <= MinMxlSize

\* if mxl_size < 100: the archive is rejected
TooSmall(mxl_size) == mxl_size < MinMxlSize

\* f.endswith(".mxl") over os.listdir(mxl_path)
MxlFiles(d) == {n \in {"input.mxl", "output.mxl"} : d.files[n].present}

\* ------------------------------------------------------------- the engine
Patterns == {"too low interline value", "Could not export", "OutOfMemoryError"}

\* process_score's translation of the engine's stderr (a set of the
\* patterns it contains) into the message of the exception it raises.
ClassifyStderr(stderr) ==
    IF "too low interline value" \in stderr THEN "Image resolution too low"
    ELSE IF "Could not export" \in stderr THEN "Music recognition failed"
    ELSE IF "OutOfMemoryError" \in stderr THEN "Image too large to process"
    ELSE "Audiveris processing failed"

\* ------------------------------------------------------------ the analysis
\* A facet value is "ok" (a non-empty value), "empty" (an empty list),
\* "err" (the facet's error marker, "Error: ..." or a container of it) or
\* "absent" (None, or the key is missing).
InitialAnalysis ==
    [f \in FacetNames |->
        IF f \in {"parts", "chords"} THEN "empty" ELSE "absent"]

Failable == FacetNames \cup {"midi"}

FailSets == {F \in SUBSET Failable : Cardinality(F) <= MaxFacetFailures}

\* The analysis dict after the six guarded facet blocks: a block that raised
\* left the error marker, the chords block may leave an empty list.
AnalysisOf(F, chordsEmpty) ==
    [f \in FacetNames |->
        IF f \in F THEN "err"
        ELSE IF f = "chords" /\ chordsEmpty THEN "empty"
        ELSE "ok"]

Truthy(v) == v \in {"ok", "err"}

HasError(v) == v = "err"

\* core_valid without the "Error" test on the key: the mutant of CoreValid.
CoreValidKeyUnchecked(a, musicxml_url) ==
    /\ Truthy(a["key"])
    /\ Truthy(a["parts"]) /\ ~HasError(a["parts"])
    /\ a["chords"] # "absent"
    /\ Truthy(a["time_signature"]) /\ ~HasError(a["time_signature"])
    /\ musicxml_url # "null" /\ musicxml_url # "err"

\* core_valid of process_score
CoreValid(a, musicxml_url) ==
    /\ Truthy(a["key"]) /\ ~HasError(a["key"])
    /\ Truthy(a["parts"]) /\ ~HasError(a["parts"])
    /\ a["chords"] # "absent"
    /\ Truthy(a["time_signature"]) /\ ~HasError(a["time_signature"])
    /\ musicxml_url # "null" /\ musicxml_url # "err"

\* midi_valid of process_score
MidiValid(midi_url) == midi_url # "null" /\ midi_url # "err"

\* additional_valid of process_score
AdditionalValid(a) ==
    /\ a["notable_elements"] # "absent"
    /\ a["score_structure"] # "absent"

\* score.processed = core_valid and additional_valid
Processed(a, musicxml_url, midi_url) ==
    CoreValid(a, musicxml_url) /\ AdditionalValid(a)

\* ---------------------------------------------------------------- state
VARIABLES
    db,            \* id -> job record (the PDFFile table)
    fs,            \* TempDir(id) -> directory
    outputDir,     \* the ids whose output_<id>.xml is in BASE_DIR/output
    cleanupQueue,  \* id -> number of cleanup_temp_files tasks scheduled, not yet run
    cleanupRaised, \* id -> the last cleanup_temp_files run for the id raised
    pc,            \* run -> its place in process_score
    sid,           \* run -> the score_id it was delivered with (0: none)
    score,         \* run -> the local object `score` (NoRecord: unbound)
    fetched,       \* run -> the record as PDFFile.objects.get returned it
    exc,           \* run -> message of the exception the handler caught
    mxlFile,       \* run -> the archive name mxl_files[0] it chose
    analysis,      \* run -> the local dict `analysis`
    raisedExc,     \* run -> message of the exception that left the task
    secondary,     \* runs in which a save inside an except block raised
    scheduledBy,   \* runs that called cleanup_temp_files.apply_async
    engineRuns     \* run -> number of engine invocations of the run

VARIABLES
    counter,       \* the cache entry "audiveris_running_jobs" (Missing: no entry)
    ppc,           \* call -> its place in process_with_audiveris
    psid,          \* call -> its score_id argument (0: none)
    cur,           \* call -> current_jobs, the local of job_tracking
    pre,           \* call -> the value job_tracking read on entry
    post,          \* call -> the value job_tracking wrote on exit
    ws,            \* call -> its mkdtemp directory: "none", "exists", "removed"
    wsFile,        \* call -> the archive the engine left in the workspace
    teardowns,     \* call -> number of shutil.rmtree calls on its workspace
    rmFailed,      \* calls whose shutil.rmtree raised (logged as a warning)
    pexc,          \* call -> message of the exception raised in the with block
    xmlPath,       \* call -> final_xml_path is not None
    alone          \* call -> no other call was running during it

taskLocal ==
    <<cleanupQueue, cleanupRaised, pc, sid, score, fetched, exc, mxlFile,
      analysis, raisedExc, secondary, scheduledBy, engineRuns>>

taskVars == <<db, fs, outputDir, taskLocal>>

pwaLocal ==
    <<ppc, psid, cur, pre, post, ws, wsFile, teardowns, rmFailed, pexc,
      xmlPath, alone>>

pwaVars == <<counter, pwaLocal>>

VARIABLES
    call,          \* the last call of a function checked on its own: name, arguments, result
    prev           \* the call before it, where a claim compares two calls

fnVars == <<call, prev>>

\* One MusicAnalysisOptimizer instance.
VARIABLES
    score_stream,    \* the tempo markings of the parsed score, in the order they are collected
    analysis_cache,  \* cache key -> cached value (NotCached: no entry)
    returned,        \* the cache key and the value of the last facet call
    computations,    \* cache key -> the number of times the facet's try block ran
    calls            \* the number of facet calls made on the instance

optVars == <<score_stream, analysis_cache, returned, computations, calls>>

vars == <<taskVars, pwaVars, fnVars, optVars>>

TaskInit ==
    /\ db = [i \in Ids |-> NoRecord]
    /\ fs = [d \in {TempDir(i) : i \in Ids} |-> NoDir]
    /\ outputDir = {}
    /\ cleanupQueue = [i \in Ids |-> 0]
    /\ cleanupRaised = [i \in Ids |-> FALSE]
    /\ pc = [r \in Runs |-> "idle"]
    /\ sid = [r \in Runs |-> 0]
    /\ score = [r \in Runs |-> NoRecord]
    /\ fetched = [r \in Runs |-> NoRecord]
    /\ exc = [r \in Runs |-> ""]
    /\ mxlFile = [r \in Runs |-> ""]
    /\ analysis = [r \in Runs |-> NoFacets]
    /\ raisedExc = [r \in Runs |-> ""]
    /\ secondary = {}
    /\ scheduledBy = {}
    /\ engineRuns = [r \in Runs |-> 0]

Missing == -1

PwaInit ==
    /\ counter = Missing
    /\ ppc = [r \in Runs |-> "idle"]
    /\ psid = [r \in Runs |-> 0]
    /\ cur = [r \in Runs |-> 0]
    /\ pre = [r \in Runs |-> 0]
    /\ post = [r \in Runs |-> 0]
    /\ ws = [r \in Runs |-> "none"]
    /\ wsFile = [r \in Runs |-> NoFile]
    /\ teardowns = [r \in Runs |-> 0]
    /\ rmFailed = {}
    /\ pexc = [r \in Runs |-> ""]
    /\ xmlPath = [r \in Runs |-> FALSE]
    /\ alone = [r \in Runs |-> FALSE]

\* No function has been called yet.
NoCall == [fn |-> "none"]

FnInit ==
    /\ call = NoCall
    /\ prev = NoCall

\* max_chords arguments of analyze_chords
MaxChordsValues == {5, 10}

\* cache_key of analyze_chords: f"chords_analysis_{max_chords}"
ChordsKey(max_chords) == "chords_analysis_" \o ToString(max_chords)

\* The keys of analysis_cache: cache_key of each analyze_* method.
OptKeys ==
    {"key_analysis", "parts_analysis", "time_signature_analysis",
     "notable_elements_analysis", "score_structure_analysis", "measures_analysis",
     "instrumentation_analysis", "meter_changes_analysis", "tempo_analysis"}
        \cup {ChordsKey(n) : n \in MaxChordsValues}

NotCached == [shape |-> "absent", err |-> ""]

\* __init__: self.analysis_cache = {}
OptInit ==
    /\ score_stream = <<>>
    /\ analysis_cache = [k \in OptKeys |-> NotCached]
    /\ returned = [key |-> "none", value |-> NotCached]
    /\ computations = [k \in OptKeys |-> 0]
    /\ calls = 0

Init == TaskInit /\ PwaInit /\ FnInit /\ OptInit

\* A failure sends the run back to the engine instead of to the handler.
CaughtRetry(r, m) ==
    /\ pc' = [pc EXCEPT ![r] = "engine"]
    /\ exc' = [exc EXCEPT ![r] = m]

\* The exception handler of process_score is entered with message m.
Caught(r, m) ==
    /\ pc' = [pc EXCEPT ![r] = "handler"]
    /\ exc' = [exc EXCEPT ![r] = m]

Dir(r) == fs[TempDir(sid[r])]

\* The task's frame is left (by return or by raise): its locals are gone.
Return(r) ==
    /\ score' = [score EXCEPT ![r] = NoRecord]
    /\ fetched' = [fetched EXCEPT ![r] = NoRecord]
    /\ mxlFile' = [mxlFile EXCEPT ![r] = ""]
    /\ analysis' = [analysis EXCEPT ![r] = NoFacets]

\* FileUploadView.post with analyze=true: the record is created, the
\* directory made and the input written; process_score.delay enqueues the job.
Upload(i) ==
    /\ ~db[i].exists
    /\ db' = [db EXCEPT ![i] = NewRecord]
    /\ fs' = [fs EXCEPT ![TempDir(i)] =
                [exists |-> TRUE,
                 files |-> [NoDir.files EXCEPT !["input"] = PlainFile]]]
    /\ UNCHANGED <<outputDir, cleanupQueue, cleanupRaised, pc, sid, score,
                   fetched, exc, mxlFile, analysis, raisedExc, secondary,
                   scheduledBy, engineRuns>>
    /\ UNCHANGED <<pwaVars, fnVars, optVars>>

\* The queue hands process_score(score_id, file_ext) to a worker; delivery
\* is at least once, so an id may be delivered to several runs.
Deliver(r, i) ==
    /\ pc[r] = "idle"
    /\ db[i].exists
    /\ pc' = [pc EXCEPT ![r] = "lookup"]
    /\ sid' = [sid EXCEPT ![r] = i]
    /\ UNCHANGED <<db, fs, outputDir, cleanupQueue, cleanupRaised, score,
                   fetched, exc, mxlFile, analysis, raisedExc, secondary,
                   scheduledBy, engineRuns>>
    /\ UNCHANGED <<pwaVars, fnVars, optVars>>

\* score = PDFFile.objects.get(id=score_id); dbOk = FALSE: the query raises.
Lookup(r, dbOk) ==
    /\ pc[r] = "lookup"
    /\ IF dbOk /\ db[sid[r]].exists
       THEN /\ score' = [score EXCEPT ![r] = db[sid[r]]]
            /\ fetched' = [fetched EXCEPT ![r] = db[sid[r]]]
            /\ pc' = [pc EXCEPT ![r] = "input"]
            /\ exc' = exc
       ELSE /\ Caught(r, "PDFFile lookup failed")
            /\ UNCHANGED <<score, fetched>>
    /\ UNCHANGED <<db, fs, outputDir, cleanupQueue, cleanupRaised, sid,
                   mxlFile, analysis, raisedExc, secondary, scheduledBy,
                   engineRuns>>
    /\ UNCHANGED <<pwaVars, fnVars, optVars>>

\* input_path.exists(), then os.path.exists("/app/audiveris").
CheckInput(r, homeExists) ==
    /\ pc[r] = "input"
    /\ IF ~(Dir(r).exists /\ Dir(r).files["input"].present)
       THEN Caught(r, "File not found")
       ELSE IF ~homeExists
       THEN Caught(r, "Audiveris directory does not exist")
       ELSE /\ pc' = [pc EXCEPT ![r] = "engine"]
            /\ exc' = exc
    /\ UNCHANGED <<db, fs, outputDir, cleanupQueue, cleanupRaised, sid, score,
                   fetched, mxlFile, analysis, raisedExc, secondary,
                   scheduledBy, engineRuns>>
    /\ UNCHANGED <<pwaVars, fnVars, optVars>>

\* subprocess.run(audiveris_cmd, check=True, timeout=300).  The engine is a
\* black box: it times out, exits non-zero with a stderr, or exits zero
\* having written an archive named after the input (or nothing) into the
\* output directory, which is the job's directory itself.
RunEngine(r, outcome, stderr, product) ==
    /\ pc[r] = "engine"
    /\ engineRuns' = [engineRuns EXCEPT ![r] = @ + 1]
    /\ CASE outcome = "timeout" ->
              /\ Caught(r, "Audiveris processing timed out")
              /\ fs' = fs
         [] outcome = "failed" ->
              /\ Caught(r, ClassifyStderr(stderr))
              /\ fs' = fs
         [] outcome = "ok" ->
              /\ Dir(r).exists /\ Dir(r).files["input"].present
              /\ fs' = [fs EXCEPT ![TempDir(sid[r])].files["input.mxl"] =
                          IF product.present THEN product ELSE @]
              /\ pc' = [pc EXCEPT ![r] = "locate"]
              /\ exc' = exc
    /\ UNCHANGED <<db, outputDir, cleanupQueue, cleanupRaised, sid, score,
                   fetched, mxlFile, analysis, raisedExc, secondary,
                   scheduledBy>>
    /\ UNCHANGED <<pwaVars, fnVars, optVars>>

\* mxl_files = [f for f in os.listdir(mxl_path) if f.endswith(".mxl")], then
\* mxl_files[0] and its size.  os.listdir gives no order: which archive is
\* first is a choice.
Locate(r) ==
    /\ pc[r] = "locate"
    /\ IF ~Dir(r).exists
       THEN /\ Caught(r, "No such file or directory")
            /\ mxlFile' = mxlFile
       ELSE IF MxlFiles(Dir(r)) = {}
       THEN /\ Caught(r, "No MusicXML files generated")
            /\ mxlFile' = mxlFile
       ELSE \E f \in MxlFiles(Dir(r)) :
              IF TooSmall(Dir(r).files[f].size)
              THEN /\ Caught(r, "Generated MusicXML file appears to be empty or corrupt")
                   /\ mxlFile' = mxlFile
              ELSE /\ mxlFile' = [mxlFile EXCEPT ![r] = f]
                   /\ pc' = [pc EXCEPT ![r] = "rename"]
                   /\ exc' = exc
    /\ UNCHANGED <<db, fs, outputDir, cleanupQueue, cleanupRaised, sid, score,
                   fetched, analysis, raisedExc, secondary, scheduledBy,
                   engineRuns>>
    /\ UNCHANGED <<pwaVars, fnVars, optVars>>

\* os.rename(mxl_file, output_mxl_path)
Rename(r) ==
    /\ pc[r] = "rename"
    /\ IF ~(Dir(r).exists /\ Dir(r).files[mxlFile[r]].present)
       THEN /\ Caught(r, "No such file or directory")
            /\ fs' = fs
       ELSE /\ fs' = [fs EXCEPT ![TempDir(sid[r])].files =
                        [n \in FileNames |->
                            IF n = "output.mxl" THEN Dir(r).files[mxlFile[r]]
                            ELSE IF n = mxlFile[r] THEN NoFile
                            ELSE @[n]]]
            /\ pc' = [pc EXCEPT ![r] = "extract"]
            /\ exc' = exc
    /\ UNCHANGED <<db, outputDir, cleanupQueue, cleanupRaised, sid, score,
                   fetched, mxlFile, analysis, raisedExc, secondary,
                   scheduledBy, engineRuns>>
    /\ UNCHANGED <<pwaVars, fnVars, optVars>>

\* The archive at output.mxl can be opened and holds an .xml entry.
CanExtract(d) ==
    d.exists /\ d.files["output.mxl"].present /\ d.files["output.mxl"].hasXml

\* "Create XML version for serving via API": any failure (the archive does
\* not open or holds no .xml entry, or writing output.xml raises) is logged
\* and leaves xml_output_path = None.
ExtractXml(r, writeOk) ==
    /\ pc[r] = "extract"
    /\ fs' = IF CanExtract(Dir(r)) /\ writeOk
             THEN [fs EXCEPT ![TempDir(sid[r])].files["output.xml"] = PlainFile]
             ELSE fs
    /\ pc' = [pc EXCEPT ![r] = "copy"]
    /\ UNCHANGED <<db, outputDir, cleanupQueue, cleanupRaised, sid, score,
                   fetched, exc, mxlFile, analysis, raisedExc, secondary,
                   scheduledBy, engineRuns>>
    /\ UNCHANGED <<pwaVars, fnVars, optVars>>

\* "Copy the MusicXML file to the output directory": output_<id>.xml in
\* BASE_DIR/output; any failure is logged only.
CopyOut(r) ==
    /\ pc[r] = "copy"
    /\ outputDir' = IF CanExtract(Dir(r)) THEN outputDir \cup {sid[r]}
                    ELSE outputDir
    /\ pc' = [pc EXCEPT ![r] = "parse"]
    /\ UNCHANGED <<db, fs, cleanupQueue, cleanupRaised, sid, score, fetched,
                   exc, mxlFile, analysis, raisedExc, secondary, scheduledBy,
                   engineRuns>>
    /\ UNCHANGED <<pwaVars, fnVars, optVars>>

\* score_stream = converter.parse(output_mxl_path), outside any inner try.
Parse(r, parserOk) ==
    /\ pc[r] = "parse"
    /\ IF CanExtract(Dir(r)) /\ parserOk
       THEN /\ analysis' = [analysis EXCEPT ![r] = InitialAnalysis]
            /\ pc' = [pc EXCEPT ![r] = "analyze"]
            /\ exc' = exc
       ELSE /\ Caught(r, "converter.parse failed")
            /\ analysis' = analysis
    /\ UNCHANGED <<db, fs, outputDir, cleanupQueue, cleanupRaised, sid, score,
                   fetched, mxlFile, raisedExc, secondary, scheduledBy,
                   engineRuns>>
    /\ UNCHANGED <<pwaVars, fnVars, optVars>>

\* The URL blocks and the six guarded facet blocks: F is the set of blocks
\* that raise on this score.
Analyze(r, F, chordsEmpty) ==
    /\ pc[r] = "analyze"
    /\ LET midiOk == "midi" \notin F /\ Dir(r).exists IN
       /\ score' = [score EXCEPT ![r].musicxml_url = "url",
                                 ![r].midi_url = IF midiOk THEN "url" ELSE "err"]
       /\ fs' = IF midiOk
                THEN [fs EXCEPT ![TempDir(sid[r])].files["score.mid"] = PlainFile]
                ELSE fs
    /\ analysis' = [analysis EXCEPT ![r] = AnalysisOf(F, chordsEmpty)]
    /\ pc' = [pc EXCEPT ![r] = "persist"]
    /\ UNCHANGED <<db, outputDir, cleanupQueue, cleanupRaised, sid, fetched,
                   exc, mxlFile, raisedExc, secondary, scheduledBy, engineRuns>>
    /\ UNCHANGED <<pwaVars, fnVars, optVars>>

\* "Save results to database": score.save() writes every field of the
\* local object.  save1 is the save of the try block, save2 the save of its
\* except block (its second except clause is never entered).
Persist(r, save1, save2) ==
    /\ pc[r] = "persist"
    /\ LET a == analysis[r]
           rec == [score[r] EXCEPT
                     !.results = AnalysisResult(a),
                     !.processed = Processed(a, score[r].musicxml_url, score[r].midi_url)]
           failed == [rec EXCEPT !.processed = FALSE,
                                 !.results = ErrorResult("database error")]
       IN  IF save1
           THEN /\ score' = [score EXCEPT ![r] = rec]
                /\ db' = [db EXCEPT ![sid[r]] = rec]
                /\ pc' = [pc EXCEPT ![r] = "schedule"]
                /\ UNCHANGED <<exc, secondary>>
           ELSE IF save2
           THEN /\ score' = [score EXCEPT ![r] = failed]
                /\ db' = [db EXCEPT ![sid[r]] = failed]
                /\ pc' = [pc EXCEPT ![r] = "schedule"]
                /\ UNCHANGED <<exc, secondary>>
           ELSE /\ score' = [score EXCEPT ![r] = failed]
                /\ db' = db
                /\ secondary' = secondary \cup {r}
                /\ Caught(r, "database error")
    /\ UNCHANGED <<fs, outputDir, cleanupQueue, cleanupRaised, sid, fetched,
                   mxlFile, analysis, raisedExc, scheduledBy, engineRuns>>
    /\ UNCHANGED <<pwaVars, fnVars, optVars>>

\* cleanup_temp_files.apply_async((score_id,), countdown=CLEANUP_DELAY_SECONDS),
\* the last statement of the try block.
Schedule(r, brokerOk) ==
    /\ pc[r] = "schedule"
    /\ IF brokerOk
       THEN /\ cleanupQueue' = [cleanupQueue EXCEPT ![sid[r]] = @ + 1]
            /\ scheduledBy' = scheduledBy \cup {r}
            /\ pc' = [pc EXCEPT ![r] = "done"]
            /\ exc' = exc
            /\ Return(r)
       ELSE /\ Caught(r, "apply_async failed")
            /\ UNCHANGED <<cleanupQueue, scheduledBy, score, fetched, mxlFile,
                           analysis>>
    /\ UNCHANGED <<db, fs, outputDir, cleanupRaised, sid, raisedExc, secondary,
                   engineRuns>>
    /\ UNCHANGED <<pwaVars, fnVars, optVars>>

\* except Exception as e: score.processed = False;
\* score.results = f"Error: {str(e)}"; score.save(); raise.
\* With `score` unbound the first assignment raises UnboundLocalError.
Handler(r, saveOk) ==
    /\ pc[r] = "handler"
    /\ pc' = [pc EXCEPT ![r] = "raised"]
    /\ IF ~score[r].exists
       THEN /\ raisedExc' = [raisedExc EXCEPT ![r] = "UnboundLocalError"]
            /\ UNCHANGED <<db, secondary>>
       ELSE LET rec == [score[r] EXCEPT !.processed = FALSE,
                                        !.results = ErrorResult(exc[r])]
            IN  IF saveOk
                THEN /\ db' = [db EXCEPT ![sid[r]] = rec]
                     /\ raisedExc' = [raisedExc EXCEPT ![r] = exc[r]]
                     /\ secondary' = secondary
                ELSE /\ db' = db
                     /\ raisedExc' = [raisedExc EXCEPT ![r] = "database error"]
                     /\ secondary' = secondary \cup {r}
    /\ exc' = [exc EXCEPT ![r] = ""]
    /\ Return(r)
    /\ UNCHANGED <<fs, outputDir, cleanupQueue, cleanupRaised, sid,
                   scheduledBy, engineRuns>>
    /\ UNCHANGED <<pwaVars, fnVars, optVars>>

\* A cleanup that also takes the serve URLs off the record: the mutant of
\* Cleanup.
CleanupClearingUrls(i, rmOk) ==
    /\ cleanupQueue[i] > 0
    /\ cleanupQueue' = [cleanupQueue EXCEPT ![i] = @ - 1]
    /\ fs' = IF rmOk THEN [fs EXCEPT ![TempDir(i)] = NoDir] ELSE fs
    /\ cleanupRaised' = [cleanupRaised EXCEPT ![i] = fs[TempDir(i)].exists /\ ~rmOk]
    /\ db' = [db EXCEPT ![i].musicxml_url = "null", ![i].midi_url = "null"]
    /\ UNCHANGED <<outputDir, pc, sid, score, fetched, exc, mxlFile,
                   analysis, raisedExc, secondary, scheduledBy, engineRuns>>
    /\ UNCHANGED <<pwaVars, fnVars, optVars>>

\* cleanup_temp_files(score_id), run by the queue after the countdown.
Cleanup(i, rmOk) ==
    /\ cleanupQueue[i] > 0
    /\ cleanupQueue' = [cleanupQueue EXCEPT ![i] = @ - 1]
    /\ IF fs[TempDir(i)].exists
       THEN IF rmOk
            THEN /\ fs' = [fs EXCEPT ![TempDir(i)] = NoDir]
                 /\ cleanupRaised' = [cleanupRaised EXCEPT ![i] = FALSE]
            ELSE /\ fs' = fs
                 /\ cleanupRaised' = [cleanupRaised EXCEPT ![i] = TRUE]
       ELSE /\ fs' = fs
            /\ cleanupRaised' = [cleanupRaised EXCEPT ![i] = FALSE]
    /\ UNCHANGED <<db, outputDir, pc, sid, score, fetched, exc, mxlFile,
                   analysis, raisedExc, secondary, scheduledBy, engineRuns>>
    /\ UNCHANGED <<pwaVars, fnVars, optVars>>

EngineOutcomes == {"timeout", "failed", "ok"}

TaskNext ==
    \/ \E i \in Ids : Upload(i)
    \/ \E r \in Runs, i \in Ids : Deliver(r, i)
    \/ \E r \in Runs, dbOk \in BOOLEAN : Lookup(r, dbOk)
    \/ \E r \in Runs, homeExists \in BOOLEAN : CheckInput(r, homeExists)
    \/ \E r \in Runs, outcome \in EngineOutcomes, stderr \in SUBSET Patterns,
          product \in Archives \cup {NoFile} :
          RunEngine(r, outcome, stderr, product)
    \/ \E r \in Runs : Locate(r)
    \/ \E r \in Runs : Rename(r)
    \/ \E r \in Runs, writeOk \in BOOLEAN : ExtractXml(r, writeOk)
    \/ \E r \in Runs : CopyOut(r)
    \/ \E r \in Runs, parserOk \in BOOLEAN : Parse(r, parserOk)
    \/ \E r \in Runs, F \in FailSets, chordsEmpty \in BOOLEAN :
          Analyze(r, F, chordsEmpty)
    \/ \E r \in Runs, save1 \in BOOLEAN, save2 \in BOOLEAN : Persist(r, save1, save2)
    \/ \E r \in Runs, brokerOk \in BOOLEAN : Schedule(r, brokerOk)
    \/ \E r \in Runs, saveOk \in BOOLEAN : Handler(r, saveOk)
    \/ \E i \in Ids, rmOk \in BOOLEAN : Cleanup(i, rmOk)

SpecTask == Init /\ [][TaskNext]_vars

\* ------------------------------------------- process_with_audiveris
MaxInputMb == 50

InputSizesMb == {1, MaxInputMb, MaxInputMb + 1}

\* A size check that lets a file of one more megabyte through: the mutant of
\* TooLarge.
TooLargeOffByOne(sizeMb) == sizeMb > MaxInputMb + 1

\* validate_file_size raises: file_size > max_size_mb * 1024 * 1024
TooLarge(sizeMb) == sizeMb > MaxInputMb

\* cache.get("audiveris_running_jobs", 0)
CacheGet == IF counter = Missing THEN 0 ELSE counter

Max(a, b) == IF a >= b THEN a ELSE b

\* job_tracking, entry: the value set is current_jobs + 1
AcquireValue(current_jobs) == current_jobs + 1

\* An exit that sets the value it read: the mutant of ReleaseValue.
ReleaseValueNoDecrement(current_jobs) == Max(0, current_jobs)

\* job_tracking, exit: the value set is max(0, current_jobs - 1)
ReleaseValue(current_jobs) == Max(0, current_jobs - 1)

\* A call is between the two cache.set of job_tracking.
HoldingPcs == {"mkdtemp", "engine", "locate", "move", "extract", "copy", "ws_exit", "rel_read"}

Holding(r) == ppc[r] \in HoldingPcs

\* A call is between a cache.get of job_tracking and the cache.set after it.
MidUpdate(r) == ppc[r] \in {"acq_write", "rel_write"}

Running(r) == ppc[r] \notin {"idle", "returned", "raised"}

\* process_with_audiveris's translation of the engine's stderr.
ClassifyStderrPwa(stderr) ==
    IF "too low interline value" \in stderr THEN "Image resolution too low"
    ELSE IF "Could not export" \in stderr THEN "Music recognition failed"
    ELSE IF "OutOfMemoryError" \in stderr THEN "Insufficient memory"
    ELSE "Audiveris processing failed"

\* An exception leaves the body of the with block: the two context
\* managers are exited, temp_workspace first.
PFail(r, m) ==
    /\ ppc' = [ppc EXCEPT ![r] = "ws_exit"]
    /\ pexc' = [pexc EXCEPT ![r] = m]

\* process_with_audiveris(score_id, file_ext, input_path) is called: the
\* three checks before the with block.
PCall(r, i, homeExists, sizeMb) ==
    /\ ppc[r] = "idle"
    /\ psid' = [psid EXCEPT ![r] = i]
    /\ IF ~homeExists
       THEN /\ ppc' = [ppc EXCEPT ![r] = "raised"]
            /\ pexc' = [pexc EXCEPT ![r] = "Audiveris directory does not exist"]
            /\ alone' = alone
       ELSE IF ~(fs[TempDir(i)].exists /\ fs[TempDir(i)].files["input"].present)
       THEN /\ ppc' = [ppc EXCEPT ![r] = "raised"]
            /\ pexc' = [pexc EXCEPT ![r] = "Input file does not exist"]
            /\ alone' = alone
       ELSE IF TooLarge(sizeMb)
       THEN /\ ppc' = [ppc EXCEPT ![r] = "raised"]
            /\ pexc' = [pexc EXCEPT ![r] = "File too large"]
            /\ alone' = alone
       ELSE /\ ppc' = [ppc EXCEPT ![r] = "acq_read"]
            /\ pexc' = pexc
            /\ alone' = [q \in Runs |->
                           IF q = r THEN \A o \in Runs \ {r} : ~Running(o)
                           ELSE IF Running(q) THEN FALSE
                           ELSE alone[q]]
    /\ UNCHANGED <<counter, cur, pre, post, ws, wsFile, teardowns, rmFailed, xmlPath>>
    /\ UNCHANGED <<taskVars, fnVars, optVars>>

\* current_jobs = cache.get("audiveris_running_jobs", 0)
PAcquireRead(r) ==
    /\ ppc[r] = "acq_read"
    /\ cur' = [cur EXCEPT ![r] = CacheGet]
    /\ pre' = [pre EXCEPT ![r] = CacheGet]
    /\ ppc' = [ppc EXCEPT ![r] = "acq_write"]
    /\ UNCHANGED <<counter, psid, post, ws, wsFile, teardowns, rmFailed, pexc,
                   xmlPath, alone>>
    /\ UNCHANGED <<taskVars, fnVars, optVars>>

\* cache.set("audiveris_running_jobs", current_jobs + 1, timeout=3600)
PAcquireWrite(r) ==
    /\ ppc[r] = "acq_write"
    /\ counter' = AcquireValue(cur[r])
    /\ ppc' = [ppc EXCEPT ![r] = "mkdtemp"]
    /\ UNCHANGED <<psid, cur, pre, post, ws, wsFile, teardowns, rmFailed, pexc,
                   xmlPath, alone>>
    /\ UNCHANGED <<taskVars, fnVars, optVars>>

\* temp_dir = tempfile.mkdtemp(prefix=f"audiveris_{score_id}_"): a fresh
\* directory of the call's own.
PMkWorkspace(r) ==
    /\ ppc[r] = "mkdtemp"
    /\ ws' = [ws EXCEPT ![r] = "exists"]
    /\ ppc' = [ppc EXCEPT ![r] = "engine"]
    /\ UNCHANGED <<counter, psid, cur, pre, post, wsFile, teardowns, rmFailed,
                   pexc, xmlPath, alone>>
    /\ UNCHANGED <<taskVars, fnVars, optVars>>

\* subprocess.run(audiveris_cmd, check=True, timeout=timeout), the engine
\* writing into temp_dir.
PRunEngine(r, outcome, stderr, product) ==
    /\ ppc[r] = "engine"
    /\ CASE outcome = "timeout" ->
              /\ PFail(r, "Processing timed out")
              /\ wsFile' = wsFile
         [] outcome = "failed" ->
              /\ PFail(r, ClassifyStderrPwa(stderr))
              /\ wsFile' = wsFile
         [] outcome = "ok" ->
              /\ wsFile' = [wsFile EXCEPT ![r] = product]
              /\ ppc' = [ppc EXCEPT ![r] = "locate"]
              /\ pexc' = pexc
    /\ UNCHANGED <<counter, psid, cur, pre, post, ws, teardowns, rmFailed,
                   xmlPath, alone>>
    /\ UNCHANGED <<taskVars, fnVars, optVars>>

\* "Find generated MXL file" and "Validate generated file"
PLocate(r) ==
    /\ ppc[r] = "locate"
    /\ IF ~wsFile[r].present
       THEN PFail(r, "No MusicXML files generated")
       ELSE IF TooSmall(wsFile[r].size)
       THEN PFail(r, "Generated MusicXML file is too small")
       ELSE /\ ppc' = [ppc EXCEPT ![r] = "move"]
            /\ pexc' = pexc
    /\ UNCHANGED <<counter, psid, cur, pre, post, ws, wsFile, teardowns,
                   rmFailed, xmlPath, alone>>
    /\ UNCHANGED <<taskVars, fnVars, optVars>>

\* os.makedirs(TEMP_STORAGE_DIR/<score_id>, exist_ok=True);
\* shutil.move(temp_mxl_path, final_mxl_path)
PMove(r) ==
    /\ ppc[r] = "move"
    /\ fs' = [fs EXCEPT ![TempDir(psid[r])] =
                [exists |-> TRUE,
                 files |-> [@.files EXCEPT !["output.mxl"] = wsFile[r]]]]
    /\ wsFile' = [wsFile EXCEPT ![r] = NoFile]
    /\ ppc' = [ppc EXCEPT ![r] = "extract"]
    /\ UNCHANGED <<counter, psid, cur, pre, post, ws, teardowns, rmFailed,
                   pexc, xmlPath, alone>>
    /\ UNCHANGED <<db, outputDir, taskLocal, fnVars, optVars>>

\* extract_xml_from_mxl(final_mxl_path, final_xml_path); on an exception
\* final_xml_path = None.
PExtract(r) ==
    /\ ppc[r] = "extract"
    /\ IF CanExtract(fs[TempDir(psid[r])])
       THEN /\ fs' = [fs EXCEPT ![TempDir(psid[r])].files["output.xml"] = PlainFile]
            /\ xmlPath' = [xmlPath EXCEPT ![r] = TRUE]
       ELSE /\ fs' = fs
            /\ xmlPath' = [xmlPath EXCEPT ![r] = FALSE]
    /\ ppc' = [ppc EXCEPT ![r] = "copy"]
    /\ UNCHANGED <<counter, psid, cur, pre, post, ws, wsFile, teardowns,
                   rmFailed, pexc, alone>>
    /\ UNCHANGED <<db, outputDir, taskLocal, fnVars, optVars>>

\* "Copy to output directory for compatibility": copy2 of output.xml, else
\* extraction straight to output_<id>.xml; failures are logged only.  The
\* with block ends.
PCopy(r) ==
    /\ ppc[r] = "copy"
    /\ LET d == fs[TempDir(psid[r])] IN
       outputDir' =
          IF (xmlPath[r] /\ d.exists /\ d.files["output.xml"].present) \/ CanExtract(d)
          THEN outputDir \cup {psid[r]}
          ELSE outputDir
    /\ ppc' = [ppc EXCEPT ![r] = "ws_exit"]
    /\ UNCHANGED <<counter, psid, cur, pre, post, ws, wsFile, teardowns,
                   rmFailed, pexc, xmlPath, alone>>
    /\ UNCHANGED <<db, fs, taskLocal, fnVars, optVars>>

\* temp_workspace, finally: shutil.rmtree(temp_dir); an exception of it is
\* logged as a warning.
PWorkspaceExit(r, rmOk) ==
    /\ ppc[r] = "ws_exit"
    /\ IF ws[r] = "exists"
       THEN /\ teardowns' = [teardowns EXCEPT ![r] = @ + 1]
            /\ IF rmOk
               THEN /\ ws' = [ws EXCEPT ![r] = "removed"]
                    /\ wsFile' = [wsFile EXCEPT ![r] = NoFile]
                    /\ rmFailed' = rmFailed
               ELSE /\ rmFailed' = rmFailed \cup {r}
                    /\ UNCHANGED <<ws, wsFile>>
       ELSE UNCHANGED <<teardowns, ws, wsFile, rmFailed>>
    /\ ppc' = [ppc EXCEPT ![r] = "rel_read"]
    /\ UNCHANGED <<counter, psid, cur, pre, post, pexc, xmlPath, alone>>
    /\ UNCHANGED <<taskVars, fnVars, optVars>>

\* job_tracking, finally: current_jobs = cache.get("audiveris_running_jobs", 0)
PReleaseRead(r) ==
    /\ ppc[r] = "rel_read"
    /\ cur' = [cur EXCEPT ![r] = CacheGet]
    /\ ppc' = [ppc EXCEPT ![r] = "rel_write"]
    /\ UNCHANGED <<counter, psid, pre, post, ws, wsFile, teardowns, rmFailed,
                   pexc, xmlPath, alone>>
    /\ UNCHANGED <<taskVars, fnVars, optVars>>

\* cache.set("audiveris_running_jobs", max(0, current_jobs - 1), timeout=3600);
\* then the call returns its paths or the exception goes on to the caller.
PReleaseWrite(r) ==
    /\ ppc[r] = "rel_write"
    /\ counter' = ReleaseValue(cur[r])
    /\ post' = [post EXCEPT ![r] = ReleaseValue(cur[r])]
    /\ ppc' = [ppc EXCEPT ![r] = IF pexc[r] = "" THEN "returned" ELSE "raised"]
    /\ UNCHANGED <<psid, cur, pre, ws, wsFile, teardowns, rmFailed, pexc,
                   xmlPath, alone>>
    /\ UNCHANGED <<taskVars, fnVars, optVars>>

\* The cache entry times out, 3600 s after the last cache.set.  A call holds
\* its slot for far less (the engine's timeout is at most 600 s), so the
\* entry does not expire while a call is between its two cache.set.
Expire ==
    /\ counter # Missing
    /\ \A r \in Runs : ~Holding(r)
    /\ counter' = Missing
    /\ UNCHANGED pwaLocal
    /\ UNCHANGED <<taskVars, fnVars, optVars>>

PwaNext ==
    \/ \E i \in Ids : Upload(i)
    \/ \E r \in Runs, i \in Ids, homeExists \in BOOLEAN, sizeMb \in InputSizesMb :
          PCall(r, i, homeExists, sizeMb)
    \/ \E r \in Runs : PAcquireRead(r)
    \/ \E r \in Runs : PAcquireWrite(r)
    \/ \E r \in Runs : PMkWorkspace(r)
    \/ \E r \in Runs, outcome \in EngineOutcomes, stderr \in SUBSET Patterns,
          product \in Archives \cup {NoFile} :
          PRunEngine(r, outcome, stderr, product)
    \/ \E r \in Runs : PLocate(r)
    \/ \E r \in Runs : PMove(r)
    \/ \E r \in Runs : PExtract(r)
    \/ \E r \in Runs : PCopy(r)
    \/ \E r \in Runs, rmOk \in BOOLEAN : PWorkspaceExit(r, rmOk)
    \/ \E r \in Runs : PReleaseRead(r)
    \/ \E r \in Runs : PReleaseWrite(r)
    \/ Expire

SpecPwa == Init /\ [][PwaNext]_vars

\* ------------------------------------------------- analyze_with_music21
\* The keys of an analysis dict.
M21Facets ==
    {"key", "parts", "chords", "time_signature", "notable_elements",
     "score_structure", "measures", "instrumentation", "meter_changes", "tempo"}

M21Keys == M21Facets \cup {"text_content"}

\* A value of the dict: its Python shape ("none", "str", "list", "dict") and
\* the error text it carries ("" for none).  [shape "dict", err e] with
\* e # "" is {"error": e}; [shape "list", err e] is [e]; [shape "str",
\* err e] is the string e.
Val(shape, err) == [shape |-> shape, err |-> err]

StrFacets == {"key", "time_signature"}
ListFacets == {"parts", "chords"}

ShapeOf(k) ==
    IF k \in StrFacets THEN "str" ELSE IF k \in ListFacets THEN "list" ELSE "dict"

\* The value an analyze_* method of MusicAnalysisOptimizer stores when its
\* try block raised: f"Error: {e}" for key and time_signature,
\* [f"Error: {e}"] for parts and chords, {"error": f"Error: {e}"} for the rest.
FacetError(k) == Val(ShapeOf(k), "Error: msg")

\* The value the method stores when its try block ran through.
FacetValue(k) == Val(ShapeOf(k), "")

\* analysis = {...}: the dict analyze_with_music21 starts from.
M21Initial ==
    [k \in {"key", "measures", "instrumentation", "tempo", "meter_changes",
            "parts", "chords", "time_signature"} |->
        IF k \in StrFacets THEN Val("none", "") ELSE Val(ShapeOf(k), "")]

\* d[k] = v
Put(d, k, v) == [x \in DOMAIN d \cup {k} |-> IF x = k THEN v ELSE d[x]]

\* The ten assignments analysis[k] = optimizer.analyze_k(); F is the set of
\* facets whose computation raises.
M21WithFacets(F) ==
    [k \in DOMAIN M21Initial \cup M21Facets |->
        IF k \in F THEN FacetError(k) ELSE FacetValue(k)]

\* The text_content block: the extraction results, a message when there are
\* none, an error dict when loading them raised.
M21WithText(d, textOk) ==
    Put(d, "text_content",
        IF textOk THEN Val("dict", "")
        ELSE Val("dict", "Failed to load text extraction results: msg"))

\* A fallback dict with the four core keys only: the mutant of M21Fallback.
M21FallbackCoreOnly ==
    [k \in {"error", "key", "parts", "chords", "time_signature"} |->
        IF k = "error" THEN Val("str", "Analysis failed: msg")
        ELSE IF k \in StrFacets THEN Val("str", "Error")
        ELSE IF k = "parts" THEN Val("list", "Error")
        ELSE Val("list", "")]

\* The dict returned by the outer except of analyze_with_music21.
M21Fallback ==
    [k \in M21Keys \cup {"error"} |->
        IF k = "error" THEN Val("str", "Analysis failed: msg")
        ELSE IF k \in StrFacets THEN Val("str", "Error")
        ELSE IF k = "parts" THEN Val("list", "Error")
        ELSE IF k = "chords" THEN Val("list", "")
        ELSE Val("dict", "msg")]

\* analyze_with_music21(mxl_path, score): parseOk is whether
\* converter.parse and the optimizer's construction run through.
AnalyzeWithMusic21Result(parseOk, F, textOk) ==
    IF parseOk THEN M21WithText(M21WithFacets(F), textOk) ELSE M21Fallback

\* The names the module binds by `from music21 import (...)`
Music21Imports ==
    {"converter", "chord", "meter", "note", "articulations", "dynamics",
     "stream", "instrument", "layout"}

\* analyze_tempo uses the name `tempo`: with no such import its try block
\* raises NameError on every score.
AlwaysFailing == IF "tempo" \in Music21Imports THEN {} ELSE {"tempo"}

\* The sets of facets whose computation raises
M21FailSets ==
    {F \cup AlwaysFailing :
        F \in {G \in SUBSET (M21Facets \ AlwaysFailing) :
                  Cardinality(G) <= MaxFacetFailures}}

\* One call of analyze_with_music21.
AnalyzeWithMusic21(parseOk, F, textOk) ==
    /\ call' = [fn |-> "analyze_with_music21", parseOk |-> parseOk,
                failed |-> F, textOk |-> textOk, raised |-> FALSE,
                result |-> AnalyzeWithMusic21Result(parseOk, F, textOk)]
    /\ prev' = NoCall
    /\ UNCHANGED <<taskVars, pwaVars, optVars>>

\* --------------------------------- the engine's timeout and diagnostics
Min(a, b) == IF a <= b THEN a ELSE b

\* One megabyte, in bytes: file sizes are in bytes.
Mb == 1048576

\* process_with_audiveris: timeout = min(600, max(450, int(file_size_mb * 10)))
\* with file_size_mb = os.path.getsize(input_path) / (1024 * 1024)
PwaTimeout(file_size) == Min(600, Max(450, (file_size * 10) \div Mb))

\* process_score: subprocess.run(..., timeout=300)
TaskTimeout(file_size) == 300

Entries == {"process_score", "process_with_audiveris"}

TimeoutOf(entry, file_size) ==
    IF entry = "process_score" THEN TaskTimeout(file_size) ELSE PwaTimeout(file_size)

\* The sizes of input files, in bytes: around the sizes at which
\* int(file_size_mb * 10) passes 450 and 600, and the upload limit.
FileSizes ==
    {0, 1, 45 * Mb - 1, 45 * Mb, MaxInputMb * Mb, 60 * Mb - 1, 60 * Mb, 200 * Mb}

\* str(e.stderr)[:200]
DiagLimit == 200

\* The engine's stderr: the patterns it contains and its length in
\* characters (the three patterns together are shorter than DiagLimit - 1).
Diagnostics ==
    [patterns : SUBSET Patterns, len : {DiagLimit - 1, DiagLimit, DiagLimit + 1}]

\* The exception raised for a non-zero exit: its message and the number of
\* characters of the diagnostic the message carries.
FailureReport(entry, stderr) ==
    IF entry = "process_score"
    THEN [message |-> ClassifyStderr(stderr.patterns),
          shown |-> IF ClassifyStderr(stderr.patterns) = "Audiveris processing failed"
                    THEN stderr.len ELSE 0]
    ELSE [message |-> ClassifyStderrPwa(stderr.patterns),
          shown |-> IF ClassifyStderrPwa(stderr.patterns) = "Audiveris processing failed"
                    THEN Min(stderr.len, DiagLimit) ELSE 0]

\* The exception raised for subprocess.TimeoutExpired: its message and the
\* number of seconds the message names (0: it names none).
TimeoutReport(entry, file_size) ==
    IF entry = "process_score"
    THEN [message |-> "Audiveris processing timed out", seconds |-> 0]
    ELSE [message |-> "Processing timed out", seconds |-> PwaTimeout(file_size)]

\* The engine is invoked on a file of file_size bytes and exits non-zero
\* with the diagnostic stderr.
EngineFails(entry, file_size, stderr) ==
    /\ call' = [fn |-> "engine", entry |-> entry, file_size |-> file_size,
                outcome |-> "failed", stderr |-> stderr,
                timeout |-> TimeoutOf(entry, file_size),
                report |-> FailureReport(entry, stderr)]
    /\ prev' = NoCall
    /\ UNCHANGED <<taskVars, pwaVars, optVars>>

\* The engine is invoked on a file of file_size bytes and exceeds the timeout.
EngineTimesOut(entry, file_size) ==
    /\ call' = [fn |-> "engine", entry |-> entry, file_size |-> file_size,
                outcome |-> "timeout",
                timeout |-> TimeoutOf(entry, file_size),
                report |-> TimeoutReport(entry, file_size)]
    /\ prev' = NoCall
    /\ UNCHANGED <<taskVars, pwaVars, optVars>>

\* ------------------------------------- ResourceConfig.get_memory_allocation
\* A heap ceiling without the lower clamp: the mutant of MemoryMb.
MemoryMbNoFloor(total_memory_gb, running_jobs) ==
    Min(2560, (total_memory_gb * 3072) \div (5 * Max(1, running_jobs)))

\* int(base_memory * 1024) with base_memory = min(2.5, max(1.0,
\* (total_memory_gb * 0.6) / max(1, running_jobs))), in exact arithmetic:
\* 1024 * 0.6 * t / j = 3072 t / (5 j), and the clamps commute with the
\* truncation because 1024 and 2560 are integers.
MemoryMb(total_memory_gb, running_jobs) ==
    Min(2560, Max(1024, (total_memory_gb * 3072) \div (5 * Max(1, running_jobs))))

\* psutil.virtual_memory().total // (1024**3), on hosts from under 1 GB up.
TotalMemoriesGb == {0, 1, 2, 3, 4, 5, 8, 16}

\* cache.get("audiveris_running_jobs", 0): the counter's values.
JobCounts == 0 .. MaxCounter + 1

\* config.get_memory_allocation() on a host with total_memory_gb while the
\* counter reads running_jobs.
GetMemoryAllocation(total_memory_gb, running_jobs) ==
    /\ call' = [fn |-> "get_memory_allocation", total |-> total_memory_gb,
                jobs |-> running_jobs,
                mb |-> MemoryMb(total_memory_gb, running_jobs)]
    /\ prev' = IF call.fn = "get_memory_allocation" THEN call ELSE NoCall
    /\ UNCHANGED <<taskVars, pwaVars, optVars>>

\* ------------------------------------------------- extract_xml_from_mxl
MaxEntries == 2

\* The entries of an archive: a name and the bytes stored under it.
ZipNames ==
    {"score.xml", "output.xml", "sub/score.xml", "META-INF/container.xml", "readme.txt"}

ZipEntries == [name : ZipNames, data : {"A", "B"}]

\* mxl_zip.namelist() is in the archive's order: an archive is a sequence
\* of entries with distinct names.
ZipArchives ==
    {a \in UNION {[1..n -> ZipEntries] : n \in 0..MaxEntries} :
        \A i, j \in DOMAIN a : i # j => a[i].name # a[j].name}

EndsWithXml(name) == name # "readme.txt"

AtRoot(name) == name \in {"score.xml", "output.xml", "readme.txt"}

\* The positions of the list comprehension's matches, in order.
Matching(a, Keep(_)) == {i \in DOMAIN a : Keep(a[i].name)}

RootXml(name) == EndsWithXml(name) /\ AtRoot(name)

\* xml_files: the root-level .xml entries, or if there is none every .xml entry.
XmlFiles(a) ==
    IF Matching(a, RootXml) # {} THEN Matching(a, RootXml)
    ELSE Matching(a, EndsWithXml)

\* xml_files[0]
FirstOf(S) == CHOOSE i \in S : \A j \in S : i <= j

\* The directory of the output path: what each path holds ("" for nothing).
DirPaths == ZipNames

EmptyDir == [p \in DirPaths |-> ""]

\* An os.rename that raises when the target exists: the mutant of Rename2.
RenameIfAbsent(files, from, to) ==
    IF files[to] # "" THEN [ok |-> FALSE, files |-> files]
    ELSE [ok |-> TRUE,
          files |-> [p \in DirPaths |->
                        IF p = to THEN files[from] ELSE IF p = from THEN "" ELSE files[p]]]

\* os.rename(extracted_path, output_xml_path): the target is replaced.
Rename2(files, from, to) ==
    [ok |-> TRUE,
     files |-> [p \in DirPaths |->
                   IF p = to THEN files[from] ELSE IF p = from THEN "" ELSE files[p]]]

\* extract_xml_from_mxl(mxl_path, output_xml_path) on the archive a with
\* the output directory holding files; the output path is output.xml.
ExtractXmlFromMxlResult(a, files) ==
    IF XmlFiles(a) = {}
    THEN [raised |-> TRUE, files |-> files, archive |-> a]
    ELSE LET e == a[FirstOf(XmlFiles(a))]
             extracted == [files EXCEPT ![e.name] = e.data]
         IN  IF e.name = "output.xml"
             THEN [raised |-> FALSE, files |-> extracted, archive |-> a]
             ELSE LET r == Rename2(extracted, e.name, "output.xml")
                  IN  [raised |-> ~r.ok, files |-> r.files, archive |-> a]

\* One call of extract_xml_from_mxl: the first on an empty directory, or
\* (again) a further one on the same archive and the directory as the call
\* before left it.
ExtractXmlFromMxl(a, again) ==
    /\ again => (call.fn = "extract_xml_from_mxl" /\ call.archive = a)
    /\ LET res == ExtractXmlFromMxlResult(a, IF again THEN call.files ELSE EmptyDir)
       IN  call' = [fn |-> "extract_xml_from_mxl", archive |-> a,
                    archiveAfter |-> res.archive, raised |-> res.raised,
                    files |-> res.files]
    /\ prev' = IF again THEN call ELSE NoCall
    /\ UNCHANGED <<taskVars, pwaVars, optVars>>

\* ------------------------------------------------ build_audiveris_command
\* Extensions the upload view accepts and hands to the task; every other
\* extension is answered 400 before a job exists.
ImageExtensions == {"jpg", "jpeg", "png", "tiff", "tif", "webp"}
AcceptedExtensions == ImageExtensions \cup {"pdf"}

\* Extensions build_audiveris_command treats as images
TunedExtensions == {"jpg", "jpeg", "png", "tiff", "tif"}

MaxDimension(total_memory_gb) == IF total_memory_gb >= 4 THEN 8192 ELSE 6144

\* f"-option,...{option}={max_dimension}"
Limit(option, n) == option \o "=" \o ToString(n)

\* get_optimized_image_options: base_options + image_limits
GetOptimizedImageOptions(total_memory_gb) ==
    << "Scale.targetInterline=20", "Scale.minInterline=12",
       "TesseractOCR.useOCR=true", "SampleRepository.useRepository=true",
       Limit("maxImageWidth", MaxDimension(total_memory_gb)),
       Limit("maxImageHeight", MaxDimension(total_memory_gb)),
       Limit("maxSheetWidth", MaxDimension(total_memory_gb)),
       Limit("maxSheetHeight", MaxDimension(total_memory_gb)) >>

\* cmd_args of build_audiveris_command, split at its commas
CmdArgs(file_ext, total_memory_gb) ==
    <<"-batch", "-export", "-output", "output_path">>
        \o (IF file_ext \in TunedExtensions
            THEN GetOptimizedImageOptions(total_memory_gb) ELSE <<>>)
        \o <<"input_path">>

BuildAudiverisCommand(file_ext, total_memory_gb) ==
    /\ call' = [fn |-> "build_audiveris_command", file_ext |-> file_ext,
                total_memory_gb |-> total_memory_gb,
                cmd_args |-> CmdArgs(file_ext, total_memory_gb)]
    /\ prev' = NoCall
    /\ UNCHANGED <<taskVars, pwaVars, optVars>>

FnNext ==
    \/ \E parseOk \in BOOLEAN, F \in M21FailSets, textOk \in BOOLEAN :
          AnalyzeWithMusic21(parseOk, F, textOk)
    \/ \E entry \in Entries, file_size \in FileSizes, stderr \in Diagnostics :
          EngineFails(entry, file_size, stderr)
    \/ \E entry \in Entries, file_size \in FileSizes :
          EngineTimesOut(entry, file_size)
    \/ \E total_memory_gb \in TotalMemoriesGb, running_jobs \in JobCounts :
          GetMemoryAllocation(total_memory_gb, running_jobs)
    \/ \E a \in ZipArchives, again \in BOOLEAN : ExtractXmlFromMxl(a, again)
    \/ \E e \in AcceptedExtensions, g \in TotalMemoriesGb : BuildAudiverisCommand(e, g)

SpecFn == Init /\ [][FnNext]_vars

\* ------------------------------------------- a worker crash in job_tracking
\* The worker process is killed between the cache.set of the entry and the
\* finally of job_tracking: no finally clause runs.
PCrash(r) ==
    /\ Holding(r)
    /\ ppc' = [ppc EXCEPT ![r] = "crashed"]
    /\ UNCHANGED <<counter, psid, cur, pre, post, ws, wsFile, teardowns, rmFailed,
                   pexc, xmlPath, alone>>
    /\ UNCHANGED <<taskVars, fnVars, optVars>>

\* A worker whose call has ended is free for the next call: the locals of
\* the ended call are gone.  (Lost decrements let the counter grow without
\* limit; the model stops taking new calls once the counter, or a value of
\* it that a call has read, is MaxCounter.)
PNextJob(r) ==
    /\ ppc[r] \in {"returned", "raised"}
    /\ CacheGet < MaxCounter
    /\ \A q \in Runs \ {r} : cur[q] < MaxCounter
    /\ ppc' = [ppc EXCEPT ![r] = "idle"]
    /\ psid' = [psid EXCEPT ![r] = 0]
    /\ cur' = [cur EXCEPT ![r] = 0]
    /\ pre' = [pre EXCEPT ![r] = 0]
    /\ post' = [post EXCEPT ![r] = 0]
    /\ ws' = [ws EXCEPT ![r] = "none"]
    /\ wsFile' = [wsFile EXCEPT ![r] = NoFile]
    /\ teardowns' = [teardowns EXCEPT ![r] = 0]
    /\ rmFailed' = rmFailed \ {r}
    /\ pexc' = [pexc EXCEPT ![r] = ""]
    /\ xmlPath' = [xmlPath EXCEPT ![r] = FALSE]
    /\ alone' = [alone EXCEPT ![r] = FALSE]
    /\ UNCHANGED counter
    /\ UNCHANGED <<taskVars, fnVars, optVars>>

\* The archive the engine leaves in the crash scenario.
GoodArchive == [present |-> TRUE, size |-> 2 * MinMxlSize, hasXml |-> TRUE]

\* The steps of a call that is under way: a live worker takes them.  In the
\* crash scenario the engine either times out or leaves GoodArchive, and
\* the removal of the workspace succeeds.
PwaSteps ==
    \/ \E r \in Runs : PAcquireRead(r)
    \/ \E r \in Runs : PAcquireWrite(r)
    \/ \E r \in Runs : PMkWorkspace(r)
    \/ \E r \in Runs, outcome \in {"timeout", "ok"} :
          PRunEngine(r, outcome, {}, GoodArchive)
    \/ \E r \in Runs : PLocate(r)
    \/ \E r \in Runs : PMove(r)
    \/ \E r \in Runs : PExtract(r)
    \/ \E r \in Runs : PCopy(r)
    \/ \E r \in Runs : PWorkspaceExit(r, TRUE)
    \/ \E r \in Runs : PReleaseRead(r)
    \/ \E r \in Runs : PReleaseWrite(r)

CrashNext ==
    \/ \E i \in Ids : Upload(i)
    \/ \E r \in Runs, i \in Ids : PCall(r, i, TRUE, 1)
    \/ PwaSteps
    \/ Expire
    \/ \E r \in Runs : PCrash(r)
    \/ \E r \in Runs : PNextJob(r)

\* A live call goes on, and the cache entry expires once nothing sets it
\* any more; nothing obliges new calls to come or to stay away.
SpecCrash ==
    Init /\ [][CrashNext]_vars /\ WF_vars(PwaSteps) /\ WF_vars(Expire)

\* ------------------------------------------------------ score structure
MaxParts == 4

\* A part: its partName, its instrumentName ("" for none), the lowest and
\* highest MIDI pitch of its notes (<<>> when it has no note).
PartKinds ==
    {[name |-> "Soprano",  instrument |-> "",        range |-> <<56, 64>>],
     [name |-> "Alto",     instrument |-> "",        range |-> <<56, 64>>],
     [name |-> "Tenor",    instrument |-> "",        range |-> <<20, 100>>],
     [name |-> "Bass",     instrument |-> "Voice",   range |-> <<56, 64>>],
     [name |-> "Bassoon",  instrument |-> "Bassoon", range |-> <<54, 64>>],
     [name |-> "Violin I", instrument |-> "Violin",  range |-> <<56, 64>>],
     [name |-> "Piano",    instrument |-> "Piano",   range |-> <<>>],
     [name |-> "Flute",    instrument |-> "",        range |-> <<55, 65>>]}

\* A score: its parts in order, its number of staves, and the positions of
\* the parts that carry lyrics.
Scores ==
    UNION {[parts : [1..n -> PartKinds], staves : {2, 4},
            lyrics : {{}, {k \in 1..n : k = 1}, 1..n}] : n \in 0..MaxParts}

\* sub in s.lower(), for the names and instrument names of PartKinds
HasSub(s, sub) ==
    <<s, sub>> \in
        {<<"Soprano", "soprano">>, <<"Alto", "alto">>, <<"Tenor", "tenor">>,
         <<"Bass", "bass">>, <<"Bassoon", "bass">>, <<"Voice", "voice">>,
         <<"Violin I", "violin">>, <<"Violin", "violin">>, <<"Piano", "piano">>}

Roles == {"soprano", "alto", "tenor", "bass"}

\* any(role in name for role in ["soprano", "alto", "tenor", "bass"])
ContainsRole(name) == \E role \in Roles : HasSub(name, role)

\* part_name.lower() in ["soprano", "alto", "tenor", "bass"]
IsRole(name) == name \in {"Soprano", "Alto", "Tenor", "Bass"}

\* instruments: the instrumentName, or the part's name when it has none
InstrumentsOf(s) ==
    [i \in DOMAIN s.parts |->
        IF s.parts[i].instrument # "" THEN s.parts[i].instrument ELSE s.parts[i].name]

NamesOf(s) == [i \in DOMAIN s.parts |-> s.parts[i].name]

NumParts(s) == Len(s.parts)

AnyInstrument(s, sub) == \E i \in DOMAIN s.parts : HasSub(InstrumentsOf(s)[i], sub)

\* satb_ranges
SatbRanges == <<<<60, 84>>, <<53, 72>>, <<48, 67>>, <<36, 60>>>>

SatbRoles == <<"Soprano", "Alto", "Tenor", "Bass">>

\* all(min_midi is not None and max_midi is not None and min_midi >= low - 5
\* and max_midi <= high + 5 for pr, (low, high) in zip(pitch_ranges, satb_ranges))
RangesFit(s) ==
    \A i \in DOMAIN s.parts \cap DOMAIN SatbRanges :
        /\ s.parts[i].range # <<>>
        /\ s.parts[i].range[1] >= SatbRanges[i][1] - 5
        /\ s.parts[i].range[2] <= SatbRanges[i][2] + 5

\* The name rule, shared by both implementations.
SatbByName(s) ==
    NumParts(s) = 4 /\ \A i \in DOMAIN s.parts : ContainsRole(s.parts[i].name)

\* music_type, the same code in both implementations: lyrics_found is set by
\* the first note with lyrics in any part.
MusicType(s) ==
    IF s.lyrics # {}
    THEN IF \A i \in DOMAIN s.parts :
               HasSub(InstrumentsOf(s)[i], "voice") \/ IsRole(s.parts[i].name)
         THEN "vocal" ELSE "mixed"
    ELSE "instrumental"

Ensemble(type, parts) == [ensemble_type |-> type, parts |-> parts]

\* _detect_ensemble_type with the pitch-range rule tried before the
\* instrument rules
DetectEnsembleTypeRangeFirst(s) ==
    IF SatbByName(s) THEN Ensemble("SATB", NamesOf(s))
    ELSE IF NumParts(s) = 4 /\ RangesFit(s) THEN Ensemble("SATB", SatbRoles)
    ELSE IF AnyInstrument(s, "piano") /\ NumParts(s) <= 2
         THEN Ensemble("Piano Solo", NamesOf(s))
    ELSE IF AnyInstrument(s, "violin") /\ NumParts(s) = 4
         THEN Ensemble("String Quartet", NamesOf(s))
    ELSE Ensemble("Custom Ensemble", NamesOf(s))

\* MusicAnalysisOptimizer._detect_ensemble_type: the ensemble type and the
\* part names it leaves in score_structure
DetectEnsembleType(s) ==
    IF SatbByName(s) THEN Ensemble("SATB", NamesOf(s))
    ELSE IF AnyInstrument(s, "piano") /\ NumParts(s) <= 2
         THEN Ensemble("Piano Solo", NamesOf(s))
    ELSE IF AnyInstrument(s, "violin") /\ NumParts(s) = 4
         THEN Ensemble("String Quartet", NamesOf(s))
    ELSE IF NumParts(s) = 4 /\ RangesFit(s) THEN Ensemble("SATB", SatbRoles)
    ELSE Ensemble("Custom Ensemble", NamesOf(s))

\* The classification written inline in process_score
InlineEnsembleType(s) ==
    IF SatbByName(s) THEN Ensemble("SATB", NamesOf(s))
    ELSE IF NumParts(s) = 4 /\ RangesFit(s) THEN Ensemble("SATB", SatbRoles)
    ELSE IF AnyInstrument(s, "violin") /\ NumParts(s) = 4
         THEN Ensemble("String Quartet", NamesOf(s))
    ELSE IF AnyInstrument(s, "piano") /\ s.staves <= 2
         THEN Ensemble("Piano Solo", NamesOf(s))
    ELSE Ensemble("Custom Ensemble", NamesOf(s))

Structure(s, e) ==
    [parts |-> e.parts, music_type |-> MusicType(s), ensemble_type |-> e.ensemble_type]

\* A score is parsed; nothing has analysed it yet.
ScoreInit ==
    /\ TaskInit /\ PwaInit /\ OptInit
    /\ call \in {[fn |-> "parse", score |-> s] : s \in Scores}
    /\ prev = NoCall

\* MusicAnalysisOptimizer.analyze_score_structure on the parsed score
AnalyzeScoreStructure ==
    /\ call.fn = "parse"
    /\ call' = [fn |-> "analyze_score_structure", score |-> call.score,
                result |-> Structure(call.score, DetectEnsembleType(call.score))]
    /\ prev' = call
    /\ UNCHANGED <<taskVars, pwaVars, optVars>>

\* The score-structure block of process_score on the same score
InlineScoreStructure ==
    /\ call.fn = "analyze_score_structure"
    /\ call' = [fn |-> "process_score", score |-> call.score,
                result |-> Structure(call.score, InlineEnsembleType(call.score))]
    /\ prev' = call
    /\ UNCHANGED <<taskVars, pwaVars, optVars>>

ScoreNext == AnalyzeScoreStructure \/ InlineScoreStructure

SpecScore == ScoreInit /\ [][ScoreNext]_vars

\* ------------------------------------------------ MusicAnalysisOptimizer
MaxCalls == 3
MaxMarkings == 2

\* A tempo marking: its offset and its BPM (0: no BPM known).
MarkingKinds ==
    {[offset |-> 0, bpm |-> 120], [offset |-> 0, bpm |-> 60],
     [offset |-> 4, bpm |-> 60], [offset |-> 4, bpm |-> 0]}

\* tempo_data["tempo_markings"]: the tempo indications, then the metronome marks
TempoScores == UNION {[1..n -> MarkingKinds] : n \in 0..MaxMarkings}

\* all_tempos: the BPM of every marking that has one
AllTempos(m) == SelectSeq(m, LAMBDA x : x.bpm # 0)

\* sorted(tempo_markings, key=offset): Python's sort is stable
SortedByOffset(m) ==
    SelectSeq(m, LAMBDA x : x.offset = 0) \o SelectSeq(m, LAMBDA x : x.offset = 4)

RECURSIVE SumBpm(_)
SumBpm(m) == IF m = <<>> THEN 0 ELSE Head(m).bpm + SumBpm(Tail(m))

\* The loop over the sorted markings: one change for each marking with a BPM
\* that differs from the BPM of the marking with a BPM before it.
BpmChanges(m) ==
    LET k == AllTempos(SortedByOffset(m))
        at == {i \in 2..Len(k) : k[i - 1].bpm # k[i].bpm}
        RECURSIVE From(_)
        From(i) ==
            IF i > Len(k) THEN <<>>
            ELSE (IF i \in at
                  THEN <<[from_bpm |-> k[i - 1].bpm, to_bpm |-> k[i].bpm,
                          offset |-> k[i].offset]>>
                  ELSE <<>>) \o From(i + 1)
    IN  From(2)

\* tempo_data of analyze_tempo; average_bpm is sum(all_tempos) / len(all_tempos),
\* kept as the pair <<sum, len>> (<<>>: None).
TempoData(m) ==
    [shape |-> "dict", err |-> "",
     tempo_markings |-> m,
     bpm_changes |-> BpmChanges(m),
     initial_bpm |-> IF AllTempos(m) = <<>> THEN 0
                     ELSE AllTempos(SortedByOffset(m))[1].bpm,
     average_bpm |-> IF AllTempos(m) = <<>> THEN <<>>
                     ELSE <<SumBpm(AllTempos(m)), Len(AllTempos(m))>>,
     has_tempo_changes |-> BpmChanges(m) # <<>>]

\* What the try block of analyze_tempo stores: evaluating tempo.TempoIndication
\* raises NameError when the module binds no name `tempo`.
TempoResult(m) ==
    IF "tempo" \in Music21Imports THEN TempoData(m)
    ELSE Val("dict", "Error: name 'tempo' is not defined")

\* if cache_key not in self.analysis_cache, negated: the mutant that never hits
CacheNeverHit(cache, key) == FALSE

\* cache_key in self.analysis_cache
CacheHit(cache, key) == cache[key] # NotCached

\* The body shared by the analyze_* methods: compute and store on a miss
\* (value when the try block runs through, marker when it raises), then
\* return self.analysis_cache[cache_key].
Facet(key, value, marker, ok) ==
    /\ calls < MaxCalls
    /\ calls' = calls + 1
    /\ IF CacheHit(analysis_cache, key)
       THEN UNCHANGED <<analysis_cache, computations>>
       ELSE /\ analysis_cache' =
                  [analysis_cache EXCEPT ![key] = IF ok THEN value ELSE marker]
            /\ computations' = [computations EXCEPT ![key] = @ + 1]
    /\ returned' = [key |-> key, value |-> analysis_cache'[key]]

AnalyzeKey(ok) ==
    /\ Facet("key_analysis", FacetValue("key"), FacetError("key"), ok)
    /\ UNCHANGED <<score_stream, taskVars, pwaVars, fnVars>>

AnalyzeParts(ok) ==
    /\ Facet("parts_analysis", FacetValue("parts"), FacetError("parts"), ok)
    /\ UNCHANGED <<score_stream, taskVars, pwaVars, fnVars>>

AnalyzeChords(max_chords, ok) ==
    /\ Facet(ChordsKey(max_chords), FacetValue("chords"), FacetError("chords"), ok)
    /\ UNCHANGED <<score_stream, taskVars, pwaVars, fnVars>>

AnalyzeTimeSignature(ok) ==
    /\ Facet("time_signature_analysis", FacetValue("time_signature"),
             FacetError("time_signature"), ok)
    /\ UNCHANGED <<score_stream, taskVars, pwaVars, fnVars>>

AnalyzeNotableElements(ok) ==
    /\ Facet("notable_elements_analysis", FacetValue("notable_elements"),
             FacetError("notable_elements"), ok)
    /\ UNCHANGED <<score_stream, taskVars, pwaVars, fnVars>>

OptAnalyzeScoreStructure(ok) ==
    /\ Facet("score_structure_analysis", FacetValue("score_structure"),
             FacetError("score_structure"), ok)
    /\ UNCHANGED <<score_stream, taskVars, pwaVars, fnVars>>

AnalyzeMeasures(ok) ==
    /\ Facet("measures_analysis", FacetValue("measures"), FacetError("measures"), ok)
    /\ UNCHANGED <<score_stream, taskVars, pwaVars, fnVars>>

AnalyzeInstrumentation(ok) ==
    /\ Facet("instrumentation_analysis", FacetValue("instrumentation"),
             FacetError("instrumentation"), ok)
    /\ UNCHANGED <<score_stream, taskVars, pwaVars, fnVars>>

AnalyzeMeterChanges(ok) ==
    /\ Facet("meter_changes_analysis", FacetValue("meter_changes"),
             FacetError("meter_changes"), ok)
    /\ UNCHANGED <<score_stream, taskVars, pwaVars, fnVars>>

\* analyze_tempo: the try block's outcome is fixed by the score and the module
AnalyzeTempo ==
    /\ Facet("tempo_analysis", TempoResult(score_stream), FacetError("tempo"), TRUE)
    /\ UNCHANGED <<score_stream, taskVars, pwaVars, fnVars>>

\* MusicAnalysisOptimizer(score_stream) for a parsed score
OptimizerInit ==
    /\ TaskInit /\ PwaInit /\ FnInit
    /\ score_stream \in TempoScores
    /\ analysis_cache = [k \in OptKeys |-> NotCached]
    /\ returned = [key |-> "none", value |-> NotCached]
    /\ computations = [k \in OptKeys |-> 0]
    /\ calls = 0

OptNext ==
    \/ \E ok \in BOOLEAN : AnalyzeKey(ok)
    \/ \E ok \in BOOLEAN : AnalyzeParts(ok)
    \/ \E n \in MaxChordsValues, ok \in BOOLEAN : AnalyzeChords(n, ok)
    \/ \E ok \in BOOLEAN : AnalyzeTimeSignature(ok)
    \/ \E ok \in BOOLEAN : AnalyzeNotableElements(ok)
    \/ \E ok \in BOOLEAN : OptAnalyzeScoreStructure(ok)
    \/ \E ok \in BOOLEAN : AnalyzeMeasures(ok)
    \/ \E ok \in BOOLEAN : AnalyzeInstrumentation(ok)
    \/ \E ok \in BOOLEAN : AnalyzeMeterChanges(ok)
    \/ AnalyzeTempo

SpecOpt == OptimizerInit /\ [][OptNext]_vars

\* ------------------------------------------------------- serve endpoints
\* The status ServeMusicXMLView.get and ServeMIDIView.get answer for a job
\* whose file `name` is in its temp directory or not: 404 without the record
\* or without the file, else the file (500 when opening it raises).
ServeStatuses(i, name) ==
    IF ~db[i].exists THEN {404}
    ELSE IF ~(fs[TempDir(i)].exists /\ fs[TempDir(i)].files[name].present) THEN {404}
    ELSE {200, 500}

ServeMusicXML(i) == ServeStatuses(i, "output.xml")

ServeMIDI(i) == ServeStatuses(i, "score.mid")

\* ----------------------------------------------------------------- claims

\* C1: every run of process_score that has ended, by returning or by
\* raising, has scheduled cleanup_temp_files for its job id.
C1_CleanupScheduledOnEveryOutcome ==
    \A r \in Runs : pc[r] \in {"done", "raised"} => r \in scheduledBy

C3_CounterCountsRunningJobs ==
    (\A r \in Runs : ~MidUpdate(r))
        => CacheGet = Cardinality({r \in Runs : Holding(r)})

\* C4: a run of process_score that has invoked the engine holds a slot of
\* job_tracking and has a workspace of its own, and a run that has ended
\* holds no slot and its workspace is removed.
C4_SlotAndWorkspaceAroundEngine ==
    \A r \in Runs :
        /\ pc[r] \in {"locate", "rename", "extract", "copy", "parse", "analyze",
                      "persist", "schedule"}
              => (Holding(r) /\ ws[r] = "exists")
        /\ (pc[r] \in {"done", "raised"} /\ engineRuns[r] > 0)
              => (~Holding(r) /\ ws[r] = "removed")

\* The conditions C5 names on a saved analysis.
C5_Conditions(a) ==
    /\ a["key"] = "ok"
    /\ a["parts"] = "ok"
    /\ a["time_signature"] = "ok"
    /\ a["chords"] # "absent"
    /\ a["notable_elements"] # "absent"
    /\ a["score_structure"] # "absent"

\* C5: a record is saved as processed only with an analysis whose key, parts
\* and time_signature are present without error marker and whose chords,
\* notable_elements and score_structure are present; and a saved analysis
\* that meets these conditions is processed even when the MIDI URL is an
\* error.
C5_ProcessedOnlyIfCoreValid ==
    \A i \in Ids :
        /\ db[i].processed
              => (db[i].results.kind = "analysis" /\ C5_Conditions(db[i].results.facets))
        /\ (/\ db[i].results.kind = "analysis"
            /\ C5_Conditions(db[i].results.facets)
            /\ db[i].musicxml_url = "url"
            /\ db[i].midi_url = "err")
              => db[i].processed

\* C5, witness: a record saved as processed with an empty chord list and a
\* failed MIDI generation.
C5_Witness ==
    \E i \in Ids :
        /\ db[i].processed
        /\ db[i].midi_url = "err"
        /\ db[i].results.facets["chords"] = "empty"

\* C6: a processed record holds an analysis whose key, parts, chords,
\* time_signature and notable_elements are present and are no error marker.
C6_ProcessedImpliesFiveCleanFacets ==
    \A i \in Ids :
        db[i].processed
            => /\ db[i].results.kind = "analysis"
               /\ \A f \in {"key", "parts", "chords", "time_signature", "notable_elements"} :
                     db[i].results.facets[f] \notin {"err", "absent"}

\* C7: the step in which an exception leaves process_score leaves the job
\* record saved with processed = false and the exception's message.
C7_EscapedExceptionIsSaved ==
    [][\A r \in Runs :
          (pc[r] = "handler" /\ pc'[r] = "raised")
              => /\ db'[sid[r]].exists
                 /\ db'[sid[r]].processed = FALSE
                 /\ db'[sid[r]].results = ErrorResult(exc[r])]_vars

\* C8: when a save inside an except block of process_score raised, the
\* exception that leaves the task is not that save's.
C8_SecondarySaveFailureSwallowed ==
    \A r \in Runs :
        (pc[r] = "raised" /\ r \in secondary) => raisedExc[r] # "database error"

\* C9: a delivery that found its record processed leaves, when it ends, the
\* record's processed flag and results as it found them.
C9_RedeliveryKeepsProcessedRecord ==
    [][\A r \in Runs :
          (/\ pc[r] \in {"schedule", "handler"}
           /\ pc'[r] \in {"done", "raised"}
           /\ fetched[r].processed)
              => /\ db'[sid[r]].processed
                 /\ db'[sid[r]].results = fetched[r].results]_vars

\* A run is at a statement that reads or writes its output directory.
UsesDirectory(r) ==
    pc[r] \in {"input", "engine", "locate", "rename", "extract", "copy", "parse", "analyze"}

\* C10: two runs that are both executing never use the same directory.
C10_NoSharedDirectory ==
    \A r, q \in Runs :
        (r # q /\ UsesDirectory(r) /\ UsesDirectory(q))
            => TempDir(sid[r]) # TempDir(sid[q])

IsErrorDict(v) == v.shape = "dict" /\ v.err # ""

\* C12: in a call of analyze_with_music21 in which the computations of the
\* facets F failed, the call does not raise, every facet of F has the value
\* {"error": <message>} and every other key has the value it has when no
\* facet fails.
C12_FacetFailureIsolated ==
    (call.fn = "analyze_with_music21" /\ call.parseOk)
        => /\ ~call.raised
           /\ \A f \in call.failed : IsErrorDict(call.result[f])
           /\ \A g \in M21Keys \ call.failed :
                 call.result[g] = AnalyzeWithMusic21Result(TRUE, {}, call.textOk)[g]

\* C13: when converter.parse raised in a run of process_score, the run ends
\* with the record holding an analysis whose facets are all present as error
\* markers, and with processed = false.
C13_ParseFailureGivesAllErrorAnalysis ==
    [][\A r \in Runs :
          (pc[r] = "handler" /\ exc[r] = "converter.parse failed" /\ pc'[r] = "raised")
              => /\ db'[sid[r]].results.kind = "analysis"
                 /\ \A f \in FacetNames : db'[sid[r]].results.facets[f] = "err"
                 /\ ~db'[sid[r]].processed]_vars

\* The messages C14 allows for a diagnostic: that of the first pattern it
\* contains, in the order interline, export, memory; else the generic one.
C14_Expected(patterns) ==
    IF "too low interline value" \in patterns THEN {"Image resolution too low"}
    ELSE IF "Could not export" \in patterns THEN {"Music recognition failed"}
    ELSE IF "OutOfMemoryError" \in patterns
         THEN {"Insufficient memory", "Image too large to process"}
    ELSE {"Audiveris processing failed"}

\* C14: a non-zero exit is reported by the condition of the first pattern
\* the diagnostic contains, in the order interline, export, memory; the
\* generic message carries at most the first DiagLimit characters of the
\* diagnostic; a timeout is reported by a message naming the timeout used.
C14_EngineFailureClassified ==
    call.fn = "engine"
        => IF call.outcome = "failed"
           THEN /\ call.report.message \in C14_Expected(call.stderr.patterns)
                /\ call.report.shown <= DiagLimit
           ELSE call.report.seconds = call.timeout

\* C15: a run of process_score whose archive is missing or too small, or
\* whose extraction of output.xml from the archive failed, goes to the
\* exception handler from that step and computes no facet.
C15_ExtractionFailureTerminal ==
    [][\A r \in Runs :
          /\ (pc[r] = "locate" /\ pc'[r] # "locate"
                  /\ \A f \in MxlFiles(Dir(r)) : Dir(r).files[f].size < MinMxlSize)
                => pc'[r] = "handler"
          /\ (pc[r] = "extract" /\ pc'[r] # "extract"
                  /\ ~(Dir(r).exists /\ fs'[TempDir(sid[r])].files["output.xml"].present))
                => pc'[r] = "handler"]_vars

\* C16: a run of cleanup_temp_files raises nothing to the queue, whether or
\* not the removal failed, and leaves every job record as it was.
C16_CleanupFailureOnlyLogged ==
    [][\A i \in Ids :
          cleanupQueue'[i] < cleanupQueue[i]
              => (~cleanupRaised'[i] /\ db' = db)]_vars

\* Some worker crashed while holding a slot.
SomeCrashed == \E r \in Runs : ppc[r] = "crashed"

\* The counter counts the live calls only.
CountsLiveOnly ==
    /\ \A r \in Runs : ~MidUpdate(r)
    /\ CacheGet = Cardinality({r \in Runs : Holding(r)})

\* C17: after a worker crashed between acquire and release, whatever calls
\* come later, the counter eventually counts the live calls only.
C17_CrashedSlotReclaimed == SomeCrashed ~> CountsLiveOnly

\* C18: the heap ceiling get_memory_allocation computes lies between 1024
\* and 2560 MB, and of two calls on the same host the one that reads more
\* running jobs gets no larger a ceiling.
C18_MemoryCeilingClampedMonotone ==
    call.fn = "get_memory_allocation"
        => /\ 1024 <= call.mb /\ call.mb <= 2560
           /\ (prev.fn = "get_memory_allocation" /\ prev.total = call.total
                  /\ prev.jobs <= call.jobs)
                 => call.mb <= prev.mb

\* C18, witness: two calls on one host, the second reading more running
\* jobs and getting a strictly smaller ceiling, both inside the clamp; and
\* the counter was missing or 0 at the first.
C18_Witness ==
    /\ call.fn = "get_memory_allocation" /\ prev.fn = "get_memory_allocation"
    /\ prev.total = call.total
    /\ prev.jobs = 0 /\ call.jobs > 1
    /\ call.mb < prev.mb
    /\ 1024 < call.mb /\ prev.mb < 2560

\* C19: the timeout passed to the engine lies between 450 and 600 seconds
\* and does not decrease when the input file grows.
C19_TimeoutClampedMonotone ==
    call.fn = "engine"
        => /\ 450 <= call.timeout /\ call.timeout <= 600
           /\ \A s \in FileSizes :
                 s <= call.file_size
                     => TimeoutOf(call.entry, s) <= call.timeout

\* The step of r that validates the archive it found in an existing
\* directory holding at least one archive.
C20_Validates(r) ==
    /\ pc[r] = "locate" /\ pc'[r] # "locate"
    /\ Dir(r).exists /\ MxlFiles(Dir(r)) # {}

C21_ExtractionPureIdempotent ==
    call.fn = "extract_xml_from_mxl"
        => /\ call.archiveAfter = call.archive
           /\ prev.fn = "extract_xml_from_mxl"
                 => /\ call.raised = prev.raised
                    /\ call.files["output.xml"] = prev.files["output.xml"]

\* C21, witness: a second call on an archive whose only XML entry is
\* inside a sub-directory wrote the bytes the first call wrote.
C21_Witness ==
    /\ call.fn = "extract_xml_from_mxl" /\ prev.fn = "extract_xml_from_mxl"
    /\ ~call.raised
    /\ \E i \in DOMAIN call.archive :
          /\ call.archive[i].name = "sub/score.xml"
          /\ call.files["output.xml"] = call.archive[i].data
    /\ call.files["output.xml"] = prev.files["output.xml"]

\* C22: _detect_ensemble_type is an ordered fallback in which the earlier rule
\* wins: (1) exactly 4 parts whose names all match a voice role give "SATB",
\* whatever their pitch ranges; (2) otherwise a piano instrument with at most
\* 2 parts gives "Piano Solo"; (3) otherwise a violin instrument with exactly
\* 4 parts gives "String Quartet"; (4) otherwise 4 parts whose ranges fit the
\* SATB table within 5 semitones give "SATB" and the part names are
\* overwritten; (5) otherwise "Custom Ensemble". Part names change in rule 4 only.
C22_Rule1(s) == NumParts(s) = 4 /\ \A i \in 1..4 : ContainsRole(s.parts[i].name)
C22_Rule2(s) == AnyInstrument(s, "piano") /\ NumParts(s) <= 2
C22_Rule3(s) == AnyInstrument(s, "violin") /\ NumParts(s) = 4
C22_Rule4(s) ==
    /\ NumParts(s) = 4
    /\ \A i \in 1..4 :
          /\ s.parts[i].range # <<>>
          /\ s.parts[i].range[1] >= SatbRanges[i][1] - 5
          /\ s.parts[i].range[2] <= SatbRanges[i][2] + 5
C22_OrderedFallback ==
    call.fn = "analyze_score_structure" =>
        LET s == call.score
            r == call.result
            kept == r.parts = NamesOf(s)
        IN  /\ C22_Rule1(s) => r.ensemble_type = "SATB" /\ kept
            /\ ~C22_Rule1(s) /\ C22_Rule2(s) => r.ensemble_type = "Piano Solo" /\ kept
            /\ ~C22_Rule1(s) /\ ~C22_Rule2(s) /\ C22_Rule3(s)
                  => r.ensemble_type = "String Quartet" /\ kept
            /\ ~C22_Rule1(s) /\ ~C22_Rule2(s) /\ ~C22_Rule3(s) /\ C22_Rule4(s)
                  => r.ensemble_type = "SATB" /\ r.parts = SatbRoles
            /\ ~C22_Rule1(s) /\ ~C22_Rule2(s) /\ ~C22_Rule3(s) /\ ~C22_Rule4(s)
                  => r.ensemble_type = "Custom Ensemble" /\ kept

\* A violin score of 4 parts whose ranges also fit the SATB table was
\* classified by the earlier rule.
C22_Witness ==
    /\ call.fn = "analyze_score_structure"
    /\ C22_Rule3(call.score) /\ C22_Rule4(call.score) /\ ~C22_Rule1(call.score)
    /\ call.result.ensemble_type = "String Quartet"

\* C23: for a score of exactly 4 parts named Soprano, Alto, Tenor, Bass, both
\* implementations report ensemble_type "SATB", and music_type "vocal" when
\* lyrics are present on all 4 parts and "instrumental" otherwise, in
\* particular when only some of the parts carry lyrics.
C23_SatbMusicType ==
    (/\ call.fn \in {"analyze_score_structure", "process_score"}
     /\ NamesOf(call.score) = <<"Soprano", "Alto", "Tenor", "Bass">>)
        => /\ call.result.ensemble_type = "SATB"
           /\ call.result.music_type =
                 IF call.score.lyrics = 1..4 THEN "vocal" ELSE "instrumental"

\* C29: the ensemble classification written inline in process_score gives the
\* same ensemble type and part names as
\* MusicAnalysisOptimizer._detect_ensemble_type for every score.
C29_InlineEqualsOptimizer ==
    call.fn = "process_score" =>
        /\ call.result.ensemble_type = prev.result.ensemble_type
        /\ call.result.parts = prev.result.parts

\* C24: the recognition command always contains batch mode, export mode and
\* an explicit output directory; it contains the tuning options (target
\* interline 20, minimum interline 12, OCR, sample repository, maximum image
\* dimension) exactly when the extension is one of jpg, jpeg, png, tiff, tif,
\* webp, and none of them for pdf.
C24_Has(option) == \E i \in DOMAIN call.cmd_args : call.cmd_args[i] = option
C24_Tuning ==
    {"Scale.targetInterline=20", "Scale.minInterline=12", "TesseractOCR.useOCR=true",
     "SampleRepository.useRepository=true"}
        \cup {d \o "=" \o n : d \in {"maxImageWidth", "maxImageHeight"},
                              n \in {"8192", "6144"}}
C24_CommandOptions ==
    call.fn = "build_audiveris_command" =>
        /\ call.cmd_args[1] = "-batch" /\ call.cmd_args[2] = "-export"
        /\ call.cmd_args[3] = "-output" /\ call.cmd_args[4] = "output_path"
        /\ IF call.file_ext \in {"jpg", "jpeg", "png", "tiff", "tif", "webp"}
           THEN /\ \A o \in C24_Tuning \ {"maxImageWidth=8192", "maxImageWidth=6144",
                                           "maxImageHeight=8192", "maxImageHeight=6144"} :
                       C24_Has(o)
                /\ \E n \in {"8192", "6144"} :
                       C24_Has("maxImageWidth=" \o n) /\ C24_Has("maxImageHeight=" \o n)
           ELSE \A o \in C24_Tuning : ~C24_Has(o)


\* C25: within one run of process_score the stages occur in the strict order
\* recognition, archive location and validation, extraction, analysis,
\* persistence, cleanup scheduling; a run never goes back to a stage, the
\* engine is invoked at most once, and analysis starts only after the engine
\* succeeded and a valid archive was found.
C25_Order ==
    <<"idle", "lookup", "input", "engine", "locate", "rename", "extract",
      "copy", "parse", "analyze", "persist", "schedule", "done">>
C25_Rank(p) == CHOOSE k \in DOMAIN C25_Order : C25_Order[k] = p
C25_StrictStageOrder ==
    /\ [](\A r \in Runs :
            /\ engineRuns[r] <= 1
            /\ pc[r] \in {"parse", "analyze", "persist", "schedule"}
                  => engineRuns[r] = 1 /\ mxlFile[r] # ""
            /\ pc[r] \in {"idle", "lookup", "input", "engine"} => engineRuns[r] = 0)
    /\ [][\A r \in Runs :
            pc'[r] # pc[r]
               => \/ pc'[r] = "handler" /\ pc[r] # "done"
                  \/ pc'[r] = "raised" /\ pc[r] = "handler"
                  \/ /\ pc[r] \notin {"handler", "raised"}
                     /\ pc'[r] \notin {"handler", "raised"}
                     /\ C25_Rank(pc'[r]) > C25_Rank(pc[r])]_vars

\* A run went through every stage and scheduled the cleanup.
C25_Witness ==
    \E r \in Runs : pc[r] = "done" /\ engineRuns[r] = 1 /\ r \in scheduledBy

\* C26: facet caching is idempotent: on one MusicAnalysisOptimizer instance a
\* facet's try block runs at most once, every call returns the value the
\* first call stored, result or error marker, and a call of any facet leaves
\* every value already cached as it was.
C26_CachingIdempotent ==
    /\ [](/\ \A k \in OptKeys : computations[k] <= 1
          /\ returned.key \in OptKeys =>
                /\ returned.value = analysis_cache[returned.key]
                /\ returned.value # NotCached)
    /\ [][\A k \in OptKeys :
            analysis_cache[k] # NotCached
               => analysis_cache'[k] = analysis_cache[k]
                  /\ computations'[k] = computations[k]]_vars

\* Three calls were made on two facets, so a facet was called again, and the
\* last call returned an error marker.
C26_Witness ==
    /\ calls = 3
    /\ Cardinality({k \in OptKeys : analysis_cache[k] # NotCached}) = 2
    /\ returned.value.err # ""

\* C27: for a score with at least one tempo marking whose BPM is known,
\* analyze_tempo returns tempo data, not an error marker: average_bpm is the
\* unweighted mean of the known BPM values and bpm_changes has one entry for
\* each pair of markings with a BPM that are consecutive in offset order and
\* differ in BPM.
C27_TempoData ==
    (/\ returned.key = "tempo_analysis"
     /\ \E i \in DOMAIN score_stream : score_stream[i].bpm # 0)
        => LET known == AllTempos(SortedByOffset(score_stream))
               v == returned.value
           IN  /\ v.err = ""
               /\ v.average_bpm = <<SumBpm(known), Len(known)>>
               /\ Len(v.bpm_changes) =
                     Cardinality({i \in 2..Len(known) : known[i - 1].bpm # known[i].bpm})

\* C28: a call of process_with_audiveris whose engine directory is missing,
\* whose input file is missing or whose input is larger than 50 MB raises
\* before the with block and changes nothing: the running-job counter keeps
\* its value, no workspace is created, the engine is not invoked and no
\* output file is written.
C28_Rejected(r) ==
    /\ ppc[r] = "raised"
    /\ pexc[r] \in {"Audiveris directory does not exist", "Input file does not exist",
                    "File too large"}
C28_InputErrorChangesNothing ==
    /\ [][\A r \in Runs, i \in Ids, homeExists \in BOOLEAN, sizeMb \in InputSizesMb :
            (/\ PCall(r, i, homeExists, sizeMb)
             /\ \/ ~homeExists
                \/ ~(fs[TempDir(i)].exists /\ fs[TempDir(i)].files["input"].present)
                \/ sizeMb > 50)
               => /\ C28_Rejected(r)'
                  /\ UNCHANGED <<counter, cur, pre, post, ws, wsFile, teardowns,
                                 rmFailed, xmlPath, fs, outputDir, db>>]_vars
    /\ [](\A r \in Runs :
            C28_Rejected(r)
               => /\ ws[r] = "none" /\ wsFile[r] = NoFile /\ teardowns[r] = 0
                  /\ ~xmlPath[r] /\ ~Holding(r))

\* An oversized input was rejected while another call held the counter at 1.
C28_Witness ==
    \E r \in Runs, q \in Runs :
        /\ ppc[r] = "raised" /\ pexc[r] = "File too large"
        /\ Holding(q) /\ counter = 1

\* C30: a run of cleanup_temp_files changes nothing but the job's temp
\* directory: the record's processed, results, musicxml_url and midi_url are
\* what they were, so the serve URLs stay on the record while both serve
\* endpoints answer 404 once the directory is removed; and a run that finds
\* the directory absent changes nothing at all.
C30_CleanupTouchesOnlyTempDir ==
    [][\A i \in Ids :
          cleanupQueue'[i] < cleanupQueue[i]
             => /\ db' = db
                /\ outputDir' = outputDir
                /\ \A j \in Ids \ {i} : fs'[TempDir(j)] = fs[TempDir(j)]
                /\ ~fs[TempDir(i)].exists => fs' = fs
                /\ ~fs'[TempDir(i)].exists
                      => ServeMusicXML(i)' = {404} /\ ServeMIDI(i)' = {404}
                /\ UNCHANGED <<pc, sid, score, fetched, exc, mxlFile, analysis,
                               raisedExc, secondary, scheduledBy, engineRuns>>]_vars

\* Both scheduled cleanups of a job have run: its directory is gone and its
\* record still holds the two serve URLs.
C30_Witness ==
    \E i \in Ids :
        /\ Cardinality(scheduledBy) = 2 /\ cleanupQueue[i] = 0
        /\ ~fs[TempDir(i)].exists
        /\ db[i].musicxml_url = "url" /\ db[i].midi_url = "url"

====
